---- MODULE Spec2Model ----
(***************************************************************************)
(* The `drill` arm of hashcards' command-line entrypoint (src/cli.rs) and  *)
(* the configuration-file loader (src/config.rs).                          *)
(*                                                                         *)
(* One behaviour is one invocation of `hashcards drill`: the command line  *)
(* and the file system are fixed in the initial state, the main flow walks *)
(* through entrypoint() statement by statement, and the browser-launch     *)
(* task spawned at cli.rs:151 interleaves freely with it.                  *)
(***************************************************************************)
EXTENDS Integers, Sequences, FiniteSets, TLC

(***************************************************************************)
(* Option<T>: None is the empty tuple, Some(v) the one-element tuple.      *)
(***************************************************************************)
None == <<>>

Some(v) == <<v>>

IsSome(o) == o # None

\* Option::or / Option::or_else: self when it is Some, otherwise the other.
OptOr(a, b) == IF IsSome(a) THEN a ELSE b

\* Option::unwrap_or / unwrap_or_else.
UnwrapOr(o, d) == IF IsSome(o) THEN o[1] ELSE d

(***************************************************************************)
(* Bounds of the model.                                                    *)
(***************************************************************************)
\* The most options one command line gives.
MaxCliGiven == 1

\* The most keys one [drill] table holds.
MaxFileGiven == 2

\* The connection attempts wait_for_server makes before it gives up.
MaxRetries == 2

\* The clock ticks a behaviour sees.
MaxClock == 1

(***************************************************************************)
(* Program constants.                                                      *)
(***************************************************************************)
CONFIG_FILENAME == "hashcards.toml"

DefaultHost == "127.0.0.1"

DefaultPort == 8000

DefaultOpenBrowser == TRUE

DefaultBurySiblings == TRUE

DefaultAnswerControls == "Full"

\* The argument of exit() in the browser-launch task.
BrowserExitArg == -1

\* u16: the type of `port`.
U16Max == 65535

\* std::process::exit: the status the operating system reports is the low
\* eight bits of the argument.
ExitStatus(n) == n % 256

(***************************************************************************)
(* The command line: what clap hands to the Drill arm.                     *)
(***************************************************************************)
CliValues(k) ==
    CASE k = "directory"       -> {"/cards"}
      [] k = "card_limit"      -> {5}
      [] k = "new_card_limit"  -> {3}
      [] k = "host"            -> {"0.0.0.0"}
      [] k = "port"            -> {9001}
      [] k = "from_deck"       -> {"Math"}
      [] k = "open_browser"    -> BOOLEAN
      [] k = "answer_controls" -> {"Full", "Binary"}
      [] k = "bury_siblings"   -> BOOLEAN

OptionOf(S) == {None} \cup {Some(v) : v \in S}

GivenCount(r) == Cardinality({k \in DOMAIN r : IsSome(r[k])})

DrillArgs ==
    {c \in [directory       : OptionOf(CliValues("directory")),
            card_limit      : OptionOf(CliValues("card_limit")),
            new_card_limit  : OptionOf(CliValues("new_card_limit")),
            host            : OptionOf(CliValues("host")),
            port            : OptionOf(CliValues("port")),
            from_deck       : OptionOf(CliValues("from_deck")),
            open_browser    : OptionOf(CliValues("open_browser")),
            answer_controls : OptionOf(CliValues("answer_controls")),
            bury_siblings   : OptionOf(CliValues("bury_siblings"))] :
        GivenCount(c) <= MaxCliGiven}

(***************************************************************************)
(* The file system: the collection directory and hashcards.toml in it.     *)
(* A document is the [drill] table as written: kebab-case keys, and a port *)
(* that need not fit in a u16.                                             *)
(***************************************************************************)
TomlKeys ==
    {"card-limit", "new-card-limit", "host", "port", "open-browser",
     "answer-controls", "bury-siblings"}

TomlValues(k) ==
    CASE k = "card-limit"      -> {20}
      [] k = "new-card-limit"  -> {10}
      [] k = "host"            -> {"localhost"}
      [] k = "port"            -> {9000, 70000}
      [] k = "open-browser"    -> BOOLEAN
      [] k = "answer-controls" -> {"full", "binary", "fast"}
      [] k = "bury-siblings"   -> BOOLEAN

DrillTables ==
    {t \in {("card-limit" :> a) @@ ("new-card-limit" :> b) @@ ("host" :> c)
             @@ ("port" :> d) @@ ("open-browser" :> e) @@ ("answer-controls" :> f)
             @@ ("bury-siblings" :> g) :
                a \in OptionOf(TomlValues("card-limit")),
                b \in OptionOf(TomlValues("new-card-limit")),
                c \in OptionOf(TomlValues("host")),
                d \in OptionOf(TomlValues("port")),
                e \in OptionOf(TomlValues("open-browser")),
                f \in OptionOf(TomlValues("answer-controls")),
                g \in OptionOf(TomlValues("bury-siblings"))} :
        GivenCount(t) <= MaxFileGiven}

EmptyTable == [k \in TomlKeys |-> None]

\* kind: "missing" (no such file), "unreadable" (exists, read_to_string
\* fails), "malformed" (not TOML), "document" (TOML holding the table).
ConfigFiles ==
    {[kind |-> k, drill |-> EmptyTable] : k \in {"missing", "unreadable", "malformed"}}
    \cup {[kind |-> "document", drill |-> t] : t \in DrillTables}

Cwd == "/home/user"

(***************************************************************************)
(* Results: Fallible<T> is [ok |-> TRUE, value |-> v] or                   *)
(* [ok |-> FALSE, error |-> e]; an ErrorReport is its message, a tuple of  *)
(* the pieces format! joins.                                               *)
(***************************************************************************)
Ok(v) == [ok |-> TRUE, value |-> v, error |-> <<>>]

Err(e) == [ok |-> FALSE, value |-> <<>>, error |-> e]

(***************************************************************************)
(* config.rs                                                               *)
(***************************************************************************)
\* #[derive(Default)] DrillConfig: every field None.
DrillConfigDefault ==
    [card_limit |-> None, new_card_limit |-> None, host |-> None, port |-> None,
     open_browser |-> None, answer_controls |-> None, bury_siblings |-> None]

\* #[derive(Default)] Config.
ConfigDefault == [drill |-> DrillConfigDefault]

\* #[serde(rename_all = "kebab-case")]: the key each field is read from.
KebabCase(field) ==
    CASE field = "card_limit"      -> "card-limit"
      [] field = "new_card_limit"  -> "new-card-limit"
      [] field = "host"            -> "host"
      [] field = "port"            -> "port"
      [] field = "open_browser"    -> "open-browser"
      [] field = "answer_controls" -> "answer-controls"
      [] field = "bury_siblings"   -> "bury-siblings"

\* Deserialize for DrillConfig: #[serde(default)] leaves a field whose key is
\* absent at None; a port outside u16 is a type error.
DeserializeDrill(table) ==
    IF IsSome(table["port"]) /\ table["port"][1] \notin 0..U16Max
    THEN Err("invalid value: integer out of range for u16")
    ELSE Ok([f \in DOMAIN DrillConfigDefault |-> table[KebabCase(f)]])

\* toml::from_str::<Config>.
TomlFromStr(file) ==
    IF file.kind = "malformed"
    THEN Err("TOML parse error: expected an equals sign")
    ELSE LET d == DeserializeDrill(file.drill)
         IN  IF d.ok THEN Ok([drill |-> d.value]) ELSE d

\* load_config without the path.exists() test: a missing file is a read
\* error.
load_config_without_exists_test(file) ==
    IF file.kind \in {"missing", "unreadable"}
    THEN Err(<<"No such file or directory (os error 2)">>)
    ELSE LET parsed == TomlFromStr(file)
         IN  IF parsed.ok
             THEN Ok(parsed.value)
             ELSE Err(<<"failed to parse ", CONFIG_FILENAME, ": ", parsed.error>>)

\* load_config with the parse error swallowed (unwrap_or_default in place of
\* map_err and `?`).
load_config_swallowing_parse_errors(file) ==
    IF file.kind = "missing"
    THEN Ok(ConfigDefault)
    ELSE IF file.kind = "unreadable"
    THEN Err(<<"Permission denied (os error 13)">>)
    ELSE LET parsed == TomlFromStr(file)
         IN  IF parsed.ok THEN Ok(parsed.value) ELSE Ok(ConfigDefault)

ParseErrorReport(e) == <<"failed to parse ", CONFIG_FILENAME, ": ", e>>

\* load_config(directory), given what directory.join(CONFIG_FILENAME) names.
load_config(file) ==
    IF file.kind = "missing"
    THEN Ok(ConfigDefault)
    ELSE IF file.kind = "unreadable"
    THEN Err(<<"Permission denied (os error 13)">>)
    ELSE LET parsed == TomlFromStr(file)
         IN  IF parsed.ok THEN Ok(parsed.value) ELSE Err(ParseErrorReport(parsed.error))

(***************************************************************************)
(* cli.rs: the Drill arm of entrypoint().                                  *)
(***************************************************************************)
\* The closure with a catch-all arm that picks Binary.
AnswerControlsFromStrCatchAllBinary(s) ==
    CASE s = "full" -> Some("Full")
      [] OTHER      -> Some("Binary")

\* The match at cli.rs:140-144: the file's answer-controls string as an
\* AnswerControls, None for any string other than "full" and "binary".
AnswerControlsFromStr(s) ==
    CASE s = "full"   -> Some("Full")
      [] s = "binary" -> Some("Binary")
      [] OTHER        -> None

\* dc.answer_controls.as_deref().and_then(...): None stays None.
AnswerControlsFromConfig(o) == IF IsSome(o) THEN AnswerControlsFromStr(o[1]) ELSE None

\* The merge with the port's operands swapped: dc.port.or(port).
MergeOptionsFilePortFirst(args, dc) ==
    [host            |-> UnwrapOr(OptOr(args.host, dc.host), DefaultHost),
     port            |-> UnwrapOr(OptOr(dc.port, args.port), DefaultPort),
     card_limit      |-> OptOr(args.card_limit, dc.card_limit),
     new_card_limit  |-> OptOr(args.new_card_limit, dc.new_card_limit),
     open_browser    |-> UnwrapOr(OptOr(args.open_browser, dc.open_browser),
                                  DefaultOpenBrowser),
     bury_siblings   |-> UnwrapOr(OptOr(args.bury_siblings, dc.bury_siblings),
                                  DefaultBurySiblings),
     answer_controls |-> UnwrapOr(OptOr(args.answer_controls,
                                        AnswerControlsFromConfig(dc.answer_controls)),
                                  DefaultAnswerControls)]

\* The merge with bury_siblings ending in unwrap_or_default(): false.
MergeOptionsBuryDefaultsFalse(args, dc) ==
    [host            |-> UnwrapOr(OptOr(args.host, dc.host), DefaultHost),
     port            |-> UnwrapOr(OptOr(args.port, dc.port), DefaultPort),
     card_limit      |-> OptOr(args.card_limit, dc.card_limit),
     new_card_limit  |-> OptOr(args.new_card_limit, dc.new_card_limit),
     open_browser    |-> UnwrapOr(OptOr(args.open_browser, dc.open_browser),
                                  DefaultOpenBrowser),
     bury_siblings   |-> UnwrapOr(OptOr(args.bury_siblings, dc.bury_siblings), FALSE),
     answer_controls |-> UnwrapOr(OptOr(args.answer_controls,
                                        AnswerControlsFromConfig(dc.answer_controls)),
                                  DefaultAnswerControls)]

\* Merge: CLI arg > config file > hardcoded default (cli.rs:129-146).
MergeOptions(args, dc) ==
    [host            |-> UnwrapOr(OptOr(args.host, dc.host), DefaultHost),
     port            |-> UnwrapOr(OptOr(args.port, dc.port), DefaultPort),
     card_limit      |-> OptOr(args.card_limit, dc.card_limit),
     new_card_limit  |-> OptOr(args.new_card_limit, dc.new_card_limit),
     open_browser    |-> UnwrapOr(OptOr(args.open_browser, dc.open_browser),
                                  DefaultOpenBrowser),
     bury_siblings   |-> UnwrapOr(OptOr(args.bury_siblings, dc.bury_siblings),
                                  DefaultBurySiblings),
     answer_controls |-> UnwrapOr(OptOr(args.answer_controls,
                                        AnswerControlsFromConfig(dc.answer_controls)),
                                  DefaultAnswerControls)]

\* format!("http://{browser_host}:{port}/")
BrowserUrl(host, port) == <<"http://", host, ":", port, "/">>

\* The ServerConfig literal with deck_filter left at None.
MakeServerConfigWithoutDeckFilter(dir, m, from_deck, now) ==
    [directory          |-> Some(dir),
     host               |-> m.host,
     port               |-> m.port,
     session_started_at |-> now,
     card_limit         |-> m.card_limit,
     new_card_limit     |-> m.new_card_limit,
     deck_filter        |-> None,
     shuffle            |-> TRUE,
     answer_controls    |-> m.answer_controls,
     bury_siblings      |-> m.bury_siblings]

\* The ServerConfig literal with shuffle: false.
MakeServerConfigUnshuffled(dir, m, from_deck, now) ==
    [directory          |-> Some(dir),
     host               |-> m.host,
     port               |-> m.port,
     session_started_at |-> now,
     card_limit         |-> m.card_limit,
     new_card_limit     |-> m.new_card_limit,
     deck_filter        |-> from_deck,
     shuffle            |-> FALSE,
     answer_controls    |-> m.answer_controls,
     bury_siblings      |-> m.bury_siblings]

\* The ServerConfig literal at cli.rs:163-174; `now` is what Timestamp::now()
\* returns.
MakeServerConfig(dir, m, from_deck, now) ==
    [directory          |-> Some(dir),
     host               |-> m.host,
     port               |-> m.port,
     session_started_at |-> now,
     card_limit         |-> m.card_limit,
     new_card_limit     |-> m.new_card_limit,
     deck_filter        |-> from_deck,
     shuffle            |-> TRUE,
     answer_controls    |-> m.answer_controls,
     bury_siblings      |-> m.bury_siblings]

(***************************************************************************)
(* State.                                                                  *)
(***************************************************************************)
VARIABLES
    cli,          \* the parsed Command::Drill fields
    fs,           \* the file system: [dir_ok, file]
    clock,        \* the system clock
    pc,           \* the main flow's position in entrypoint()
    resolved_dir, \* Option: the local `resolved_dir`
    file_config,  \* Option: the local `file_config`
    merged,       \* Option: the shadowed locals host, port, ... after the merge
    task,         \* the browser-launch task: its position and what it captured
    now_reads,    \* how many times Timestamp::now() has been called
    config,       \* Option: the local `config`
    server,       \* the drill server: its state and the config it was handed
    browser,      \* the URLs handed to open::that, in order
    stderr,       \* the lines written to standard error
    result,       \* Option: what entrypoint() returned
    exit_code     \* Option: the status process::exit ended the process with

vars ==
    <<cli, fs, clock, pc, resolved_dir, file_config, merged, task, now_reads,
      config, server, browser, stderr, result, exit_code>>

NoTask == [pc |-> "none", host |-> "", port |-> 0, attempts |-> 0]

ServerDown == [state |-> "down", config |-> None]

FileSystems ==
    {[dir_ok |-> TRUE, file |-> f] : f \in ConfigFiles}
    \cup {[dir_ok |-> FALSE, file |-> [kind |-> "missing", drill |-> EmptyTable]]}

Init ==
    /\ cli \in DrillArgs
    /\ fs \in FileSystems
    /\ clock = 0
    /\ pc = "resolve_directory"
    /\ resolved_dir = None
    /\ file_config = None
    /\ merged = None
    /\ task = NoTask
    /\ now_reads = 0
    /\ config = None
    /\ server = ServerDown
    /\ browser = <<>>
    /\ stderr = <<>>
    /\ result = None
    /\ exit_code = None

\* The process runs until entrypoint() returns or a task calls exit().
Alive == pc \notin {"returned", "exited"}

\* The early return of the `?` operator.
ReturnErr(e) ==
    /\ pc' = "returned"
    /\ result' = Some(Err(e))

\* collection::resolve_directory: the given directory, or the current
\* working directory; an error when it is not a directory.
resolve_directory(directory) ==
    IF fs.dir_ok
    THEN Ok(UnwrapOr(directory, Cwd))
    ELSE Err(<<"directory does not exist.">>)

\* cli.rs:125
ResolveDirectory ==
    /\ pc = "resolve_directory"
    /\ LET r == resolve_directory(cli.directory)
       IN  IF r.ok
           THEN /\ resolved_dir' = Some(r.value)
                /\ pc' = "load_config"
                /\ UNCHANGED result
           ELSE /\ ReturnErr(r.error)
                /\ UNCHANGED resolved_dir
    /\ UNCHANGED <<cli, fs, clock, file_config, merged, task, now_reads, config,
                   server, browser, stderr, exit_code>>

\* cli.rs:126
LoadConfig ==
    /\ pc = "load_config"
    /\ LET r == load_config(fs.file)
       IN  IF r.ok
           THEN /\ file_config' = Some(r.value)
                /\ pc' = "merge"
                /\ UNCHANGED result
           ELSE /\ ReturnErr(r.error)
                /\ UNCHANGED file_config
    /\ UNCHANGED <<cli, fs, clock, resolved_dir, merged, task, now_reads, config,
                   server, browser, stderr, exit_code>>

\* cli.rs:127-146
Merge ==
    /\ pc = "merge"
    /\ merged' = Some(MergeOptions(cli, file_config[1].drill))
    /\ pc' = "spawn"
    /\ UNCHANGED <<cli, fs, clock, resolved_dir, file_config, task, now_reads,
                   config, server, browser, stderr, result, exit_code>>

\* The spawn without its `if open_browser`.
SpawnedTaskUnconditionally(m) ==
    [pc |-> "polling", host |-> m.host, port |-> m.port, attempts |-> 0]

\* What the closure of cli.rs:151 captures: browser_host and port.
SpawnedTask(m) ==
    IF m.open_browser
    THEN [pc |-> "polling", host |-> m.host, port |-> m.port, attempts |-> 0]
    ELSE NoTask

\* cli.rs:148-162: spawn returns at once; the JoinHandle is dropped.
SpawnBrowserTask ==
    /\ pc = "spawn"
    /\ task' = SpawnedTask(merged[1])
    /\ pc' = "build_config"
    /\ UNCHANGED <<cli, fs, clock, resolved_dir, file_config, merged, now_reads,
                   config, server, browser, stderr, result, exit_code>>

\* cli.rs:163-174
BuildConfig ==
    /\ pc = "build_config"
    /\ config' = Some(MakeServerConfig(resolved_dir[1], merged[1], cli.from_deck, clock))
    /\ now_reads' = now_reads + 1
    /\ pc' = "start_server"
    /\ UNCHANGED <<cli, fs, clock, resolved_dir, file_config, merged, task,
                   server, browser, stderr, result, exit_code>>

\* start_server called only after the JoinHandle of the task is awaited.
StartServerAfterJoin == pc = "start_server" /\ task.pc \in {"none", "done"}

\* What start_server needs before it can be called: the config, nothing else.
StartServerReady == pc = "start_server"

\* The config with its timestamp taken again at the call.
ServerArgumentWithFreshTimestamp ==
    Some([config[1] EXCEPT !.session_started_at = clock])

\* The config start_server receives.
ServerArgument == config

\* cli.rs:175: start_server(config) is called and awaited.
StartServer ==
    /\ StartServerReady
    /\ server' = [state |-> "starting", config |-> ServerArgument]
    /\ pc' = "serving"
    /\ UNCHANGED <<cli, fs, clock, resolved_dir, file_config, merged, task,
                   now_reads, config, browser, stderr, result, exit_code>>

\* start_server binds host:port and begins to accept connections.
ServerListens ==
    /\ pc = "serving"
    /\ server.state = "starting"
    /\ server' = [server EXCEPT !.state = "listening"]
    /\ UNCHANGED <<cli, fs, clock, pc, resolved_dir, file_config, merged, task,
                   now_reads, config, browser, stderr, result, exit_code>>

\* start_server fails (the collection, the store, the bind): entrypoint
\* returns its error.
ServerFails ==
    /\ pc = "serving"
    /\ server.state = "starting"
    /\ server' = [server EXCEPT !.state = "failed"]
    /\ ReturnErr(<<"server error">>)
    /\ UNCHANGED <<cli, fs, clock, resolved_dir, file_config, merged, task,
                   now_reads, config, browser, stderr, exit_code>>

\* A shutdown signal: start_server returns Ok(()) and so does entrypoint.
ServerShutsDown ==
    /\ pc = "serving"
    /\ server.state = "listening"
    /\ server' = [server EXCEPT !.state = "stopped"]
    /\ pc' = "returned"
    /\ result' = Some(Ok(<<>>))
    /\ UNCHANGED <<cli, fs, clock, resolved_dir, file_config, merged, task,
                   now_reads, config, browser, stderr, exit_code>>

\* A connection to host:port is accepted.
Accepts(host, port) ==
    /\ server.state = "listening"
    /\ server.config[1].host = host
    /\ server.config[1].port = port

\* utils::wait_for_server, one connection attempt: Ok once a connection is
\* accepted, Err when the retry budget is spent.
TaskPolls ==
    /\ Alive
    /\ task.pc = "polling"
    /\ task' =
         IF Accepts(task.host, task.port)
         THEN [task EXCEPT !.pc = "connected"]
         ELSE IF task.attempts + 1 >= MaxRetries
         THEN [task EXCEPT !.pc = "unreachable", !.attempts = @ + 1]
         ELSE [task EXCEPT !.attempts = @ + 1]
    /\ UNCHANGED <<cli, fs, clock, pc, resolved_dir, file_config, merged,
                   now_reads, config, server, browser, stderr, result, exit_code>>

\* cli.rs:153-155: Ok(_) => open::that(url), its result ignored.
TaskOpensBrowser ==
    /\ Alive
    /\ task.pc = "connected"
    /\ browser' = Append(browser, BrowserUrl(task.host, task.port))
    /\ task' = [task EXCEPT !.pc = "done"]
    /\ UNCHANGED <<cli, fs, clock, pc, resolved_dir, file_config, merged,
                   now_reads, config, server, stderr, result, exit_code>>

\* cli.rs:156-159: Err(e) => eprintln!, exit(-1).
TaskExits ==
    /\ Alive
    /\ task.pc = "unreachable"
    /\ stderr' = Append(stderr, <<"Failed to connect to server: ", "timed out">>)
    /\ exit_code' = Some(ExitStatus(BrowserExitArg))
    /\ pc' = "exited"
    /\ task' = [task EXCEPT !.pc = "exited"]
    /\ UNCHANGED <<cli, fs, clock, resolved_dir, file_config, merged, now_reads,
                   config, server, browser, result>>

\* Time passes.
Tick ==
    /\ Alive
    /\ clock < MaxClock
    /\ clock' = clock + 1
    /\ UNCHANGED <<cli, fs, pc, resolved_dir, file_config, merged, task,
                   now_reads, config, server, browser, stderr, result, exit_code>>

Next ==
    \/ ResolveDirectory
    \/ LoadConfig
    \/ Merge
    \/ SpawnBrowserTask
    \/ BuildConfig
    \/ StartServer
    \/ ServerListens
    \/ ServerFails
    \/ ServerShutsDown
    \/ TaskPolls
    \/ TaskOpensBrowser
    \/ TaskExits
    \/ Tick

Spec == Init /\ [][Next]_vars

TypeOK ==
    /\ pc \in {"resolve_directory", "load_config", "merge", "spawn", "build_config",
               "start_server", "serving", "returned", "exited"}
    /\ clock \in 0..MaxClock
    /\ task.pc \in {"none", "polling", "connected", "done", "unreachable", "exited"}
    /\ task.attempts \in 0..MaxRetries
    /\ server.state \in {"down", "starting", "listening", "failed", "stopped"}

(***************************************************************************)
(* Vocabulary of the properties, stated from the inputs: the command line  *)
(* as typed and the file as written.                                       *)
(***************************************************************************)
\* load_config has been called and the main flow is past it.
PastLoad == IsSome(resolved_dir) /\ pc \notin {"resolve_directory", "load_config"}

\* entrypoint() returned before it reached start_server.
ReturnedEarly == pc = "returned" /\ server.state = "down"

\* The [drill] table of the file, empty when there is no file.
Table == fs.file.drill

\* CLI value, else file value, else the default.
Resolved(fromCli, fromFile, default) ==
    IF fromCli # None THEN fromCli[1]
    ELSE IF fromFile # None THEN fromFile[1]
    ELSE default

\* The same for an option with no default: the result is itself an Option.
ResolvedOpt(fromCli, fromFile) ==
    IF fromCli # None THEN fromCli
    ELSE IF fromFile # None THEN fromFile
    ELSE None

\* The answer controls the file gives: "full" and "binary" name Full and
\* Binary; no other string is a value of the option.
FileAnswerControls ==
    IF Table["answer-controls"] = Some("full") THEN Some("Full")
    ELSE IF Table["answer-controls"] = Some("binary") THEN Some("Binary")
    ELSE None

\* The file holds an answer-controls string that names no answer controls.
UnknownAnswerControls ==
    /\ fs.file.kind = "document"
    /\ Table["answer-controls"] # None
    /\ Table["answer-controls"][1] \notin {"full", "binary"}

\* The file is there and is not a valid hashcards.toml.
Unparseable ==
    \/ fs.file.kind = "malformed"
    \/ /\ fs.file.kind = "document"
       /\ Table["port"] # None
       /\ ~(0 <= Table["port"][1] /\ Table["port"][1] <= 65535)

\* Neither source gives any of the seven options.
NothingGiven ==
    /\ \A k \in {"host", "port", "card_limit", "new_card_limit", "open_browser",
                 "bury_siblings", "answer_controls"} : cli[k] = None
    /\ \A k \in TomlKeys : Table[k] = None

PrecedenceOf(sc) ==
    /\ sc.host = Resolved(cli.host, Table["host"], "127.0.0.1")
    /\ sc.port = Resolved(cli.port, Table["port"], 8000)
    /\ sc.card_limit = ResolvedOpt(cli.card_limit, Table["card-limit"])
    /\ sc.new_card_limit = ResolvedOpt(cli.new_card_limit, Table["new-card-limit"])
    /\ sc.bury_siblings = Resolved(cli.bury_siblings, Table["bury-siblings"], TRUE)
    /\ sc.answer_controls = Resolved(cli.answer_controls, FileAnswerControls, "Full")

\* C1: each of host, port, card_limit, new_card_limit, open_browser,
\* bury_siblings and answer_controls is the CLI value when the command line
\* gives one, otherwise the file's value when hashcards.toml gives one,
\* otherwise the hardcoded default: in the locals after the merge, in the
\* decision to spawn the browser task, and in the config the server is handed.
C1_Precedence ==
    /\ IsSome(merged) =>
         /\ PrecedenceOf(merged[1])
         /\ merged[1].open_browser
              = Resolved(cli.open_browser, Table["open-browser"], TRUE)
    /\ (IsSome(merged) /\ pc # "spawn") =>
         (task.pc # "none") = Resolved(cli.open_browser, Table["open-browser"], TRUE)
    /\ IsSome(config) => PrecedenceOf(config[1])
    /\ IsSome(server.config) => PrecedenceOf(server.config[1])

\* The server runs with a config in which the CLI value won over the file's
\* (port), and one in which the file's value won over the default (host).
C1_Witness ==
    /\ server.state = "listening"
    /\ cli.port # None
    /\ Table["port"] # None
    /\ server.config[1].port = cli.port[1]
    /\ server.config[1].port # Table["port"][1]

C3_MissingFileIsEmptyConfig ==
    (fs.file.kind = "missing" /\ PastLoad) =>
        /\ ~ReturnedEarly
        /\ IsSome(file_config)
        /\ \A f \in DOMAIN file_config[1].drill : file_config[1].drill[f] = None
        /\ file_config[1] = load_config([kind |-> "document", drill |-> EmptyTable]).value
        /\ IsSome(config) =>
             config[1] = MakeServerConfig(resolved_dir[1],
                             MergeOptions(cli, [f \in DOMAIN DrillConfigDefault |-> None]),
                             cli.from_deck, config[1].session_started_at)

C3_Witness ==
    /\ fs.file.kind = "missing"
    /\ server.state = "listening"
    /\ cli.host # None

\* C4: a hashcards.toml that is present and unparseable is fatal: load_config
\* returns an error that names the file and carries the parser's diagnostic,
\* never a config, and drill returns that error with no browser task spawned
\* and no server started.
C4_UnparseableIsFatal ==
    (Unparseable /\ PastLoad) =>
        /\ pc = "returned"
        /\ IsSome(result)
        /\ ~result[1].ok
        /\ \E i \in 1..Len(result[1].error) : result[1].error[i] = "hashcards.toml"
        /\ \E i \in 1..Len(result[1].error) :
              result[1].error[i] = TomlFromStr(fs.file).error
        /\ file_config = None
        /\ merged = None
        /\ config = None
        /\ task.pc = "none"
        /\ server.state = "down"
        /\ browser = <<>>

C4_Witness ==
    /\ fs.file.kind = "document"
    /\ Unparseable
    /\ pc = "returned"

\* C5: with open_browser true a companion task is spawned for the resolved
\* host and port; the browser is opened only once the server at that host and
\* port has accepted a connection, once, on http://host:port/; when the retry
\* budget is spent the failure is on standard error and the process has ended
\* with a non-zero status. With open_browser false there is no task and the
\* browser is never opened.
C5_BrowserLaunch ==
    /\ (IsSome(merged) /\ pc # "spawn") =>
         IF merged[1].open_browser
         THEN /\ task.pc # "none"
              /\ task.host = merged[1].host
              /\ task.port = merged[1].port
         ELSE /\ task.pc = "none"
              /\ browser = <<>>
    /\ task.pc \in {"connected", "done"} =>
         /\ server.state \in {"listening", "stopped"}
         /\ server.config[1].host = task.host
         /\ server.config[1].port = task.port
    /\ browser # <<>> =>
         /\ task.pc = "done"
         /\ browser = << <<"http://", server.config[1].host, ":",
                           server.config[1].port, "/">> >>
    /\ task.pc # "done" => browser = <<>>
    /\ task.pc = "unreachable" => task.attempts = MaxRetries
    /\ task.pc = "exited" =>
         /\ pc = "exited"
         /\ stderr # <<>>
         /\ IsSome(exit_code)
         /\ exit_code[1] # 0
         /\ browser = <<>>
    /\ pc = "exited" => task.pc = "exited"

\* The task polled before the server listened, then connected, and the
\* browser was opened on the port the command line gave.
C5_Witness ==
    /\ browser # <<>>
    /\ task.attempts > 0
    /\ cli.port # None
    /\ browser[1][4] = cli.port[1]

\* C6: the browser-launch task is fire-and-forget: once the main flow is at
\* start_server the call can be made whatever the task has or has not done,
\* and the steps that build the config before it never wait for the task; no
\* step of the task touches the config or the server.
C6_FireAndForget ==
    /\ [](/\ pc = "spawn" => ENABLED SpawnBrowserTask
          /\ pc = "build_config" => ENABLED BuildConfig
          /\ pc = "start_server" => ENABLED StartServer)
    /\ [][(task' # task /\ pc # "spawn") => (config' = config /\ server' = server)]_vars

\* The server is up while the task has not made a single attempt.
C6_Witness ==
    /\ server.state = "listening"
    /\ task.pc = "polling"
    /\ task.attempts = 0

\* C7: the deck filter and the directory of the session come from the
\* command line alone: deck_filter is --from-deck, absent when that is not
\* given, and directory is the resolved DIRECTORY argument, whatever the file
\* holds.
C7_FileLeavesDeckAndDirectory ==
    /\ IsSome(config) =>
         /\ config[1].deck_filter = cli.from_deck
         /\ config[1].directory
              = Some(IF cli.directory # None THEN cli.directory[1] ELSE Cwd)
    /\ IsSome(server.config) =>
         /\ server.config[1].deck_filter = cli.from_deck
         /\ server.config[1].directory
              = Some(IF cli.directory # None THEN cli.directory[1] ELSE Cwd)

C7_Witness ==
    /\ server.state = "listening"
    /\ fs.file.kind = "document"
    /\ Table["host"] # None
    /\ cli.from_deck = None
    /\ server.config[1].deck_filter = None
    /\ cli.directory # None

\* C8: the session timestamp is read from the clock once, after the
\* directory and the config file have been resolved and before the server is
\* started; the server receives that value, and it never changes afterwards.
C8_FrozenNow ==
    /\ [](/\ now_reads <= 1
          /\ now_reads = 1 <=> IsSome(config)
          /\ IsSome(config) => (IsSome(resolved_dir) /\ IsSome(file_config))
          /\ server.state # "down" => IsSome(server.config)
          /\ IsSome(server.config) =>
               /\ now_reads = 1
               /\ server.config[1].session_started_at = config[1].session_started_at)
    /\ [][/\ now_reads' # now_reads =>
               /\ server.state = "down"
               /\ config'[1].session_started_at = clock
          /\ IsSome(config) => config' = config
          /\ IsSome(server.config) => server'.config = server.config]_vars

\* The clock has moved on since the read and the server still holds the
\* value read.
C8_Witness ==
    /\ server.state = "listening"
    /\ server.config[1].session_started_at < clock

\* C9: an answer-controls string in the file other than "full" and "binary"
\* is no error and counts as absent: unless the file is unparseable for
\* another reason load_config succeeds and drill goes on to start the
\* server, and the session runs with the controls the command line gives,
\* Full when it gives none.
C9_UnknownAnswerControlsIgnored ==
    (UnknownAnswerControls /\ PastLoad) =>
        /\ ~Unparseable => (~ReturnedEarly /\ IsSome(file_config))
        /\ IsSome(file_config) => file_config[1].drill.answer_controls = Some("fast")
        /\ IsSome(merged) =>
             merged[1].answer_controls
               = (IF cli.answer_controls # None THEN cli.answer_controls[1] ELSE "Full")
        /\ IsSome(server.config) =>
             server.config[1].answer_controls
               = (IF cli.answer_controls # None THEN cli.answer_controls[1] ELSE "Full")

C9_Witness ==
    /\ UnknownAnswerControls
    /\ cli.answer_controls = None
    /\ server.state = "listening"
    /\ server.config[1].answer_controls = "Full"

\* C10: every session the command line starts has shuffle = true, whatever
\* the arguments and the file.
C10_AlwaysShuffled ==
    /\ IsSome(config) => config[1].shuffle = TRUE
    /\ IsSome(server.config) => server.config[1].shuffle = TRUE

C10_Witness ==
    /\ server.state = "listening"
    /\ server.config[1].shuffle
    /\ fs.file.kind = "document"
    /\ cli.card_limit # None

====
